---- MODULE Spec2Model ----
(***************************************************************************)
(* Model of internal/install/install.go: Install and placeFiles.           *)
(*                                                                         *)
(* One behaviour is a caller invoking Install (possibly again, with the    *)
(* same arguments) on an environment made of a workspace directory and a   *)
(* metadata directory.  Install is cut into its numbered steps; placeFiles *)
(* is cut into opening the archive, one step per placement rule, and its   *)
(* return.  Results of the operating system that the code cannot predict   *)
(* (a command's exit status, an I/O error) are choices of the environment. *)
(***************************************************************************)
EXTENDS Integers, Sequences, FiniteSets, TLC

\* Bounds of the model.
MaxCmds == 2      \* longest pre-install / post-install command list
MaxRules == 2     \* longest list of placement rules

Range(s) == { s[i] : i \in 1..Len(s) }

Prefix(s, n) == SubSeq(s, 1, n)

(***************************************************************************)
(* Path values (package internal/path).  A textual path is the sequence of *)
(* its "/"-separated items; Parse cleans it ("." items vanish) and rejects *)
(* a path that leaves its root.  A Path is the sequence of cleaned items.  *)
(***************************************************************************)
NotDot(item) == item # "."

Parse(text) ==
  IF ".." \in Range(text)
    THEN [ok |-> FALSE, path |-> <<>>]
    ELSE [ok |-> TRUE, path |-> SelectSeq(text, NotDot)]

MakeEmpty == <<>>

IsEmpty(p) == p = <<>>

Join(p, q) == p \o q

Equal(p, q) == p = q

\* filepath.Dir of a path: the path without its last item.
Dir(p) == IF Len(p) = 0 THEN <<>> ELSE SubSeq(p, 1, Len(p) - 1)

(***************************************************************************)
(* url.QueryEscape on a string given as the sequence of its characters.    *)
(***************************************************************************)
EscapeChar(c) ==
  CASE c = "/" -> <<"%", "2", "F">>
    [] c = "%" -> <<"%", "2", "5">>
    [] c = " " -> <<"+">>
    [] c = "+" -> <<"%", "2", "B">>
    [] OTHER -> <<c>>

RECURSIVE QueryEscape(_)
QueryEscape(s) ==
  IF s = <<>> THEN <<>> ELSE EscapeChar(Head(s)) \o QueryEscape(Tail(s))

\* MetadataFileName with the identity taken as it is.
MetadataFileNameUnescaped(identity) == identity \o <<".json">>

\* url.QueryEscape(ToothRepoPath) + ".json"
MetadataFileName(identity) == QueryEscape(identity) \o <<".json">>

(***************************************************************************)
(* The inputs of Install.                                                  *)
(***************************************************************************)
Identities == { <<"a", "/", "c">>, <<"a", "%", "2", "F", "c">> }

\* Metadata().AssetURL(): "" (none), a URL, or text that is no URL.
AssetURLs == { "", "https://x/asset.zip", "%zz" }

AssetURLParses(u) == u # "%zz"

\* A command is named by its position in its list.
CmdLists == { [i \in 1..n |-> i] : n \in 0..MaxCmds }

Rules ==
  { [src |-> <<"b">>,  dest |-> <<"o">>],
    [src |-> <<"b">>,  dest |-> <<"d", "o">>],
    [src |-> <<"c">>,  dest |-> <<".", "o">>] }

RuleLists == UNION { [1..n -> Rules] : n \in 0..MaxRules }

Descriptors ==
  [ identity : Identities,
    assetURL : AssetURLs,
    preInstall : CmdLists,
    postInstall : CmdLists,
    place : RuleLists ]

\* Metadata().MarshalJSON(): the JSON document of the descriptor, field by field.
MarshalJSON(d) ==
  << <<"tooth", d.identity>>, <<"asset_url", d.assetURL>>,
     <<"pre_install", d.preInstall>>, <<"post_install", d.postInstall>>,
     <<"place", d.place>> >>

\* Reading a record back: the descriptor of a JSON document, field by field.
UnmarshalJSON(doc) ==
  [ identity |-> doc[1][2],
    assetURL |-> doc[2][2],
    preInstall |-> doc[3][2],
    postInstall |-> doc[4][2],
    place |-> doc[5][2] ]

(***************************************************************************)
(* Archives: a zip file is the list of its entries in enumeration order.   *)
(* An entry has the items of its name, whether the name ends in "/" (a     *)
(* directory entry) and its bytes.                                         *)
(***************************************************************************)
Entry(name, slash, data) == [name |-> name, slash |-> slash, data |-> data]

ToothArchivePath == <<"tooth.zip">>

SuppliedAssetPath == <<"asset.zip">>

\* archive.ContentFilePathRoot() of the tooth archive
ToothContentRoot == <<"a">>

ToothEntries ==
  << Entry(<<"a">>, TRUE, <<>>),
     Entry(<<"a", "b">>, FALSE, <<1, 2>>),
     Entry(<<"a", "bb">>, FALSE, <<3>>),
     Entry(<<"a", "c">>, TRUE, <<>>),
     Entry(<<"a", ".", "b">>, FALSE, <<4>>),
     Entry(<<"b">>, FALSE, <<5>>) >>

\* a second supplied archive, one of whose entry names does not parse
BadNameAssetPath == <<"badname.zip">>

AssetEntries ==
  << Entry(<<"b">>, FALSE, <<6, 7>>),
     Entry(<<"a", "b">>, FALSE, <<8>>),
     Entry(<<"c">>, TRUE, <<>>) >>

BadNameAssetEntries ==
  << Entry(<<"b">>, FALSE, <<6, 7>>),
     Entry(<<"..", "b">>, FALSE, <<8>>) >>

\* r.File of the archive at a path
ArchiveAt(p) ==
  CASE p = ToothArchivePath -> ToothEntries
    [] p = SuppliedAssetPath -> AssetEntries
    [] p = BadNameAssetPath -> BadNameAssetEntries
    [] OTHER -> <<>>

SuppliedPaths == { MakeEmpty, SuppliedAssetPath, BadNameAssetPath }

(***************************************************************************)
(* The environment: the workspace (current directory) as a map from the    *)
(* paths under it to what is there, and the metadata directory as a map    *)
(* from file names to contents.                                            *)
(***************************************************************************)
Absent == [kind |-> "absent", data |-> <<>>]

IsDirectory == [kind |-> "dir", data |-> <<>>]

File(data) == [kind |-> "file", data |-> data]

WorkspacePaths == { <<>>, <<"o">>, <<"d">>, <<"d", "o">> }

EmptyWorkspace == [p \in WorkspacePaths |-> IF p = <<>> THEN IsDirectory ELSE Absent]

UserFile == File(<<9>>)

InitialWorkspaces ==
  { EmptyWorkspace, [EmptyWorkspace EXCEPT ![<<"o">>] = UserFile] }

MetadataFileNames == { MetadataFileName(id) : id \in Identities }

EmptyMetadataDir == [n \in MetadataFileNames |-> Absent]

\* A record left by an earlier install of a descriptor with this identity.
EarlierDescriptor(id) ==
  [identity |-> id, assetURL |-> "", preInstall |-> <<>>, postInstall |-> <<>>,
   place |-> <<>>]

EarlierIdentity == <<"a", "/", "c">>

InitialMetadataDir ==
  [EmptyMetadataDir EXCEPT
     ![MetadataFileName(EarlierIdentity)] =
       File(MarshalJSON(EarlierDescriptor(EarlierIdentity)))]

\* tooth.IsInstalled: the registry holds a record for the identity.
IsInstalled(dir, identity) == dir[MetadataFileName(identity)] # Absent

VARIABLES
  desc,                  \* archive.Metadata(): the package descriptor
  assetArchiveFilePath,  \* Install's third argument
  fs,                    \* the workspace
  metadataDir,           \* the metadata directory
  pc,                    \* where Install is
  result,                \* what the last call returned ("none" while it runs)
  placeErr,              \* what placeFiles returned in this call
  placeArchive,          \* placeFiles' assetArchiveFilePath argument
  placeRoot,             \* placeFiles' assetContentFilePathRoot argument
  ruleIdx,               \* the placement rule placeFiles is at
  handles,               \* the open handles
  events,                \* the side effects of this call, in order
  fs0,                   \* the workspace when this call began
  metadataDir0           \* the metadata directory when this call began

vars ==
  << desc, assetArchiveFilePath, fs, metadataDir, pc, result,
     placeErr, placeArchive, placeRoot, ruleIdx, handles, events, fs0, metadataDir0 >>

inputs == << desc, assetArchiveFilePath >>

atCall == << fs0, metadataDir0 >>

\* A side effect: a command run (n its position), a directory made, a
\* destination file created, an entry copied (n its position in the archive),
\* the archive opened or closed, the metadata file written; rule is the
\* placement rule at work, ok whether the effect succeeded.
Event(kind, rule, n, path, ok) ==
  [kind |-> kind, rule |-> rule, n |-> n, path |-> path, ok |-> ok]

Handle(kind, rule, entry) == [kind |-> kind, rule |-> rule, entry |-> entry]

ArchiveHandle == Handle("archive", 0, 0)

Init ==
  /\ desc \in Descriptors
  /\ assetArchiveFilePath \in SuppliedPaths
  /\ fs \in InitialWorkspaces
  /\ metadataDir = InitialMetadataDir
  /\ pc = "idle"
  /\ result = "none"
  /\ placeErr = "none"
  /\ placeArchive = MakeEmpty
  /\ placeRoot = MakeEmpty
  /\ ruleIdx = 0
  /\ handles = {}
  /\ events = <<>>
  /\ fs0 = fs
  /\ metadataDir0 = metadataDir

(***************************************************************************)
(* The caller: Install(ctx, archive, assetArchiveFilePath), and again with *)
(* the same arguments once it has returned.                                *)
(***************************************************************************)
InstallCall ==
  /\ pc \in {"idle", "returned"}
  /\ pc' = "check"
  /\ result' = "none"
  /\ placeErr' = "none"
  /\ placeArchive' = MakeEmpty
  /\ placeRoot' = MakeEmpty
  /\ ruleIdx' = 0
  /\ events' = <<>>
  /\ fs0' = fs
  /\ metadataDir0' = metadataDir
  /\ UNCHANGED << inputs, fs, metadataDir, handles >>

\* DuplicateCheck without its "already installed" branch.
DuplicateCheckBlind(checkFailed, installed) ==
  IF checkFailed THEN "err_is_installed" ELSE "ok"

\* 1. Check if the tooth is already installed: "ok", or the error returned.
DuplicateCheck(checkFailed, installed) ==
  IF checkFailed THEN "err_is_installed"
  ELSE IF installed THEN "err_already_installed"
  ELSE "ok"

CheckInstalled ==
  /\ pc = "check"
  /\ \E checkFailed \in BOOLEAN :
       LET r == DuplicateCheck(checkFailed, IsInstalled(metadataDir, desc.identity))
       IN /\ pc' = IF r = "ok" THEN "pre" ELSE "returned"
          /\ result' = IF r = "ok" THEN "none" ELSE r
  /\ UNCHANGED << inputs, atCall, fs, metadataDir, placeErr, placeArchive, placeRoot,
                  ruleIdx, handles, events >>

(***************************************************************************)
(* runCommands: the commands run one after the other up to and including   *)
(* the first that fails; failAt is the position of that command, 0 when    *)
(* none fails.                                                             *)
(***************************************************************************)
runCommands(commands, failAt) ==
  [ ran |-> IF failAt = 0 THEN commands ELSE Prefix(commands, failAt),
    ok |-> failAt = 0 ]

CommandEvents(kind, ran, failAt) ==
  [i \in 1..Len(ran) |-> Event(kind, 0, ran[i], <<>>, i # failAt)]

\* AfterPreInstall with runCommands' error dropped.
AfterPreInstallUnchecked(ok) == "asset"

\* 2. Run pre-install commands: where Install goes with runCommands' result.
AfterPreInstall(ok) == IF ok THEN "asset" ELSE "returned"

PreInstall ==
  /\ pc = "pre"
  /\ \E failAt \in 0..Len(desc.preInstall) :
       LET r == runCommands(desc.preInstall, failAt)
       IN /\ events' = events \o CommandEvents("pre", r.ran, failAt)
          /\ pc' = AfterPreInstall(r.ok)
          /\ result' = IF pc' = "returned" THEN "err_pre_install" ELSE "none"
  /\ UNCHANGED << inputs, atCall, fs, metadataDir, placeErr, placeArchive, placeRoot,
                  ruleIdx, handles >>

\* assetURL.String()
URLString(u) == u

\* AssetMismatch without its second case.
AssetMismatchOneWay(path, url) == IsEmpty(path) /\ URLString(url) # ""

\* AssetMismatch with the condition inverted: both given, or neither.
AssetMismatchInverted(path, url) == IsEmpty(path) = (URLString(url) = "")

\* The asset archive file path and the asset URL do not go together.
AssetMismatch(path, url) ==
  \/ IsEmpty(path) /\ URLString(url) # ""
  \/ ~IsEmpty(path) /\ URLString(url) = ""

\* 3. before placeFiles: "ok", or the error returned.
AssetCheck(path, url) ==
  IF ~AssetURLParses(url) THEN "err_asset_url"
  ELSE IF AssetMismatch(path, url) THEN "err_config"
  ELSE "ok"

\* PlaceArguments with the tooth archive's content root kept for a supplied
\* archive.
PlaceArgumentsRootKept(path) ==
  IF IsEmpty(path)
    THEN [archive |-> ToothArchivePath, root |-> ToothContentRoot]
    ELSE [archive |-> path, root |-> ToothContentRoot]

\* The arguments Install gives placeFiles.
PlaceArguments(path) ==
  IF IsEmpty(path)
    THEN [archive |-> ToothArchivePath, root |-> ToothContentRoot]
    ELSE [archive |-> path, root |-> MakeEmpty]

\* AfterAssetCheck with the mismatch only reported, not returned.
AfterAssetCheckLenient(r) == IF r \in {"ok", "err_config"} THEN "open" ELSE "returned"

\* Where Install goes with the outcome of the check.
AfterAssetCheck(r) == IF r = "ok" THEN "open" ELSE "returned"

CheckAsset ==
  /\ pc = "asset"
  /\ LET r == AssetCheck(assetArchiveFilePath, desc.assetURL)
         a == PlaceArguments(assetArchiveFilePath)
     IN /\ pc' = AfterAssetCheck(r)
        /\ result' = IF pc' = "returned" THEN r ELSE "none"
        /\ placeArchive' = IF pc' = "open" THEN a.archive ELSE placeArchive
        /\ placeRoot' = IF pc' = "open" THEN a.root ELSE placeRoot
  /\ UNCHANGED << inputs, atCall, fs, metadataDir, placeErr, ruleIdx, handles, events >>

(***************************************************************************)
(* placeFiles.  The workspace directory (os.Getwd) is the root of fs, so   *)
(* a path relative to the current directory and the same path joined to    *)
(* workspaceDir name the same place.                                       *)
(***************************************************************************)
workspaceDir == <<>>

\* os.Stat(path) returned no error: something is at the path.
Stat(f, path) == path \in DOMAIN f /\ f[path].kind # "absent"

\* DestinationExists without the check.
DestinationNeverExists(f, relDest) == FALSE

\* DestinationExists looking at the workspace as it was when Install was
\* called, not as the rules before this one have left it.
DestinationExistsAtCall(f, relDest) == Stat(fs0, relDest)

\* Check if the destination exists.
DestinationExists(f, relDest) == Stat(f, relDest)

\* os.MkdirAll(dir): the missing directories on the way to dir are made, top
\* down, until one cannot be made: a file is in the way, or the system
\* refuses after `depth` of them.
MkdirAll(f, dir, depth) ==
  LET blocked(i) == \E k \in 1..i : f[Prefix(dir, k)].kind = "file" \/ k > depth
      made == { Prefix(dir, i) : i \in { k \in 1..Len(dir) : ~blocked(k) } }
      g == [q \in DOMAIN f |-> IF q \in made /\ f[q].kind = "absent" THEN IsDirectory ELSE f[q]]
  IN [ fs |-> g,
       ok |-> \A i \in 1..Len(dir) : g[Prefix(dir, i)].kind = "dir" ]

\* What the environment may do to the copy of one rule: nothing, or fail the
\* open, the create or the copy of the entry at position `at`; a failed copy
\* has written the first n bytes.
RECURSIVE MaxDataLen(_)
MaxDataLen(entries) ==
  IF entries = <<>> THEN 0
  ELSE LET m == MaxDataLen(Tail(entries))
       IN IF Len(Head(entries).data) > m THEN Len(Head(entries).data) ELSE m

Faults(entries) ==
  { [kind |-> "none", at |-> 0, n |-> 0] } \cup
  [ kind : {"open", "create"}, at : 1..Len(entries), n : {0} ] \cup
  [ kind : {"copy"}, at : 1..Len(entries), n : 0..MaxDataLen(entries) ]

\* IsDirectoryEntry with no entry skipped.
IsDirectoryEntryNever(f) == FALSE

\* Skip directories.
IsDirectoryEntry(f) == f.slash

\* Selected by the last item of the path alone.
SelectedByBaseName(filePath, src) ==
  /\ filePath # <<>>
  /\ src # <<>>
  /\ filePath[Len(filePath)] = src[Len(src)]

\* filePath.Equal(src)
Selected(filePath, src) == Equal(filePath, src)

\* The body of the loop over r.File for the entry at position j: st is the
\* workspace, the open handles, the side effects and the error so far.
PlaceEntry(st, entries, j, i, src, dest, fault) ==
  LET f == entries[j]
      filePath == Parse(f.name)
      rc == Handle("entry", i, j)
      fw == Handle("dest", i, j)
      hit == fault.at = j
  IN
  IF IsDirectoryEntry(f) THEN st
  ELSE IF ~filePath.ok THEN [st EXCEPT !.err = "err_parse_file"]
  ELSE IF ~Selected(filePath.path, src) THEN st
  ELSE IF hit /\ fault.kind = "open" THEN [st EXCEPT !.err = "err_open_source"]
  ELSE IF hit /\ fault.kind = "create"
    THEN [st EXCEPT !.err = "err_create_dest", !.handles = @ \cup {rc}]
  ELSE IF hit /\ fault.kind = "copy"
    THEN [st EXCEPT !.err = "err_copy",
                    !.handles = @ \cup {rc, fw},
                    !.fs = [@ EXCEPT ![dest] =
                              File(Prefix(f.data, IF fault.n < Len(f.data) THEN fault.n ELSE Len(f.data)))],
                    !.events = @ \o << Event("create", i, j, dest, TRUE),
                                       Event("copy", i, j, dest, FALSE) >>]
  ELSE [st EXCEPT !.fs = [@ EXCEPT ![dest] = File(f.data)],
                  !.events = @ \o << Event("create", i, j, dest, TRUE),
                                     Event("copy", i, j, dest, TRUE) >>]

\* ScanEntries with the loop left after the first entry copied for rule i.
RECURSIVE ScanEntriesFirstMatch(_, _, _, _, _, _, _)
ScanEntriesFirstMatch(st, entries, j, i, src, dest, fault) ==
  IF \/ j > Len(entries)
     \/ st.err # "nil"
     \/ \E k \in 1..Len(st.events) : st.events[k].kind = "copy" /\ st.events[k].rule = i
  THEN st
  ELSE ScanEntriesFirstMatch(PlaceEntry(st, entries, j, i, src, dest, fault),
                             entries, j + 1, i, src, dest, fault)

\* for _, f := range r.File, from position j on, until an error
RECURSIVE ScanEntries(_, _, _, _, _, _, _)
ScanEntries(st, entries, j, i, src, dest, fault) ==
  IF j > Len(entries) \/ st.err # "nil" THEN st
  ELSE ScanEntries(PlaceEntry(st, entries, j, i, src, dest, fault),
                   entries, j + 1, i, src, dest, fault)

\* The body of the loop over metadata.Files().Place for rule i.
PlaceRuleBody(st, place, i, entries, root, depth, fault) ==
  LET relDest == Parse(place.dest)
      dest == Join(workspaceDir, relDest.path)
      made == MkdirAll(st.fs, Dir(dest), depth)
      relSrc == Parse(place.src)
      src == Join(root, relSrc.path)
      st1 == [st EXCEPT !.fs = made.fs,
                        !.events = IF made.fs = st.fs THEN @
                                   ELSE Append(@, Event("mkdir", i, 0, Dir(dest), made.ok))]
  IN
  IF ~relDest.ok THEN [st EXCEPT !.err = "err_parse_dest"]
  ELSE IF DestinationExists(st.fs, relDest.path) THEN [st EXCEPT !.err = "err_dest_exists"]
  ELSE IF ~made.ok THEN [st1 EXCEPT !.err = "err_mkdir"]
  ELSE IF ~relSrc.ok THEN [st1 EXCEPT !.err = "err_parse_src"]
  ELSE ScanEntries(st1, entries, 1, i, src, dest, fault)

\* os.Getwd, path.Parse of it, zip.OpenReader
PlaceOpen ==
  /\ pc = "open"
  /\ \E r \in {"nil", "err_getwd", "err_parse_wd", "err_open_archive"} :
       /\ placeErr' = IF r = "nil" THEN "none" ELSE r
       /\ pc' = IF r = "nil" THEN "rule" ELSE "place_return"
       /\ handles' = IF r = "nil" THEN handles \cup {ArchiveHandle} ELSE handles
       /\ events' = IF r = "nil" THEN Append(events, Event("open_archive", 0, 0, placeArchive, TRUE))
                     ELSE events
       /\ ruleIdx' = IF r = "nil" THEN 1 ELSE ruleIdx
  /\ UNCHANGED << inputs, atCall, fs, metadataDir, result, placeArchive, placeRoot >>

\* AfterRule with the loop going on after an error.
AfterRuleContinue(err) == "rule"

\* Where placeFiles goes after a rule: on to the next one, or it returns
\* the rule's error.
AfterRule(err) == IF err = "nil" THEN "rule" ELSE "place_return"

PlaceRule ==
  /\ pc = "rule"
  /\ ruleIdx <= Len(desc.place)
  /\ \E depth \in 0..Len(Dir(Parse(desc.place[ruleIdx].dest).path)),
        fault \in Faults(ArchiveAt(placeArchive)) :
       LET st == PlaceRuleBody([fs |-> fs, handles |-> handles, events |-> events, err |-> "nil"],
                               desc.place[ruleIdx], ruleIdx, ArchiveAt(placeArchive),
                               placeRoot, depth, fault)
       IN /\ fs' = st.fs
          /\ handles' = st.handles
          /\ events' = st.events
          /\ placeErr' = IF st.err = "nil" THEN placeErr ELSE st.err
          /\ pc' = AfterRule(st.err)
          /\ ruleIdx' = IF st.err = "nil" THEN ruleIdx + 1 ELSE ruleIdx
  /\ UNCHANGED << inputs, atCall, metadataDir, result, placeArchive, placeRoot >>

\* AfterPlaceFiles with the record written right after placement.
AfterPlaceFilesSkipPost(err) == "commit"

\* What Install does with the error placeFiles returned: the call is a
\* statement, its result is dropped.
AfterPlaceFiles(err) == "post"

\* DeferredClose with r.Close() called at the end of the function only.
DeferredCloseOnSuccess(h, err) == IF err = "nil" THEN h \ {ArchiveHandle} ELSE h

\* defer r.Close(): the open handles once placeFiles has returned err.
DeferredClose(h, err) == h \ {ArchiveHandle}

\* placeFiles returns (nil after the last rule), its deferred r.Close() runs,
\* and Install goes on.
PlaceFilesReturn ==
  /\ \/ pc = "rule" /\ ruleIdx > Len(desc.place) /\ placeErr' = "nil"
     \/ pc = "place_return" /\ placeErr' = placeErr
  /\ handles' = DeferredClose(handles, placeErr')
  /\ events' = IF ArchiveHandle \in handles /\ ArchiveHandle \notin handles'
                THEN Append(events, Event("close_archive", 0, 0, placeArchive, TRUE)) ELSE events
  /\ pc' = AfterPlaceFiles(placeErr')
  /\ result' = IF pc' = "returned" THEN "err_place_files" ELSE "none"
  /\ UNCHANGED << inputs, atCall, fs, metadataDir, placeArchive, placeRoot, ruleIdx >>

\* AfterPostInstall with runCommands' error dropped.
AfterPostInstallUnchecked(ok) == "commit"

\* 4. Run post-install commands: where Install goes with runCommands' result.
AfterPostInstall(ok) == IF ok THEN "commit" ELSE "returned"

PostInstall ==
  /\ pc = "post"
  /\ \E failAt \in 0..Len(desc.postInstall) :
       LET r == runCommands(desc.postInstall, failAt)
       IN /\ events' = events \o CommandEvents("post", r.ran, failAt)
          /\ pc' = AfterPostInstall(r.ok)
          /\ result' = IF pc' = "returned" THEN "err_post_install" ELSE "none"
  /\ UNCHANGED << inputs, atCall, fs, metadataDir, placeErr, placeArchive, placeRoot,
                  ruleIdx, handles >>

\* os.WriteFile(name, data): the file holds data, or, the write failing, it
\* is as it was or is left truncated.
WriteFile(dir, name, data, outcome) ==
  CASE outcome = "ok" -> [dir EXCEPT ![name] = File(data)]
    [] outcome = "truncated" -> [dir EXCEPT ![name] = File(<<>>)]
    [] OTHER -> dir

\* 5. Create metadata file.
CreateMetadataFile ==
  /\ pc = "commit"
  /\ \E r \in {"ok", "err_marshal", "err_metadata_dir", "err_write", "truncated"} :
       LET jsonBytes == MarshalJSON(desc)
           metadataFileName == MetadataFileName(desc.identity)
           written == r \in {"ok", "err_write", "truncated"}
       IN /\ metadataDir' = WriteFile(metadataDir, metadataFileName, jsonBytes, r)
          /\ events' = IF written
                        THEN Append(events, Event("write_metadata", 0, 0, metadataFileName, r = "ok"))
                        ELSE events
          /\ result' = IF r = "truncated" THEN "err_write" ELSE r
  /\ pc' = "returned"
  /\ UNCHANGED << inputs, atCall, fs, placeErr, placeArchive, placeRoot, ruleIdx, handles >>

Next ==
  \/ InstallCall
  \/ CheckInstalled
  \/ PreInstall
  \/ CheckAsset
  \/ PlaceOpen
  \/ PlaceRule
  \/ PlaceFilesReturn
  \/ PostInstall
  \/ CreateMetadataFile

Spec == Init /\ [][Next]_vars

(***************************************************************************)
(* Properties.                                                             *)
(***************************************************************************)
EventsOf(kind) == { k \in 1..Len(events) : events[k].kind = kind }

HasEvent(kind) == EventsOf(kind) # {}

Failed(kind) == { k \in EventsOf(kind) : ~events[k].ok }

PlaceFailed == placeErr \notin {"none", "nil"}

\* The steps of Install from placeFiles on.
PlacementOrLater == {"open", "rule", "place_return", "post", "commit"}

\* Every destination the placement step copied to holds what the last copy
\* to it wrote: the bytes of that entry.
PlacedFilesPresent ==
  \A k \in EventsOf("copy") :
    (events[k].ok /\ \A m \in EventsOf("create") : events[m].path = events[k].path => m < k)
      => fs[events[k].path] = File(ArchiveAt(placeArchive)[events[k].n].data)

\* C1: when the registry held a record for the identity as the call began,
\* Install fails at the duplicate check: the call runs no command, places no
\* file, writes no record, and leaves workspace and registry as they were.
C1_DuplicateRejected ==
  IsInstalled(metadataDir0, desc.identity) =>
    /\ pc \in {"idle", "check", "returned"}
    /\ result # "ok"
    /\ events = <<>>
    /\ fs = fs0
    /\ metadataDir = metadataDir0

\* A second Install of an identity that an earlier Install of this behaviour
\* recorded is rejected.
C1_Witness ==
  /\ pc = "returned"
  /\ result = "err_already_installed"
  /\ desc.identity # EarlierIdentity
  /\ metadataDir0[MetadataFileName(desc.identity)] = File(MarshalJSON(desc))

\* C2: once placeFiles has failed, Install returns failure, runs no
\* post-install command and writes no record.
C2_PlacementFailureAborts ==
  (pc = "returned" /\ PlaceFailed) =>
    /\ result # "ok"
    /\ ~HasEvent("post")
    /\ ~HasEvent("write_metadata")

AssetLocationInconsistent ==
  AssetURLParses(desc.assetURL) /\ AssetMismatch(assetArchiveFilePath, desc.assetURL)

\* C3 as stated: when Install returns the configuration error, no pre-install
\* command has run, no file is placed and no record is written.
C3_NoSideEffectBeforeConfigError ==
  (pc = "returned" /\ result = "err_config") =>
    /\ events = <<>>
    /\ fs = fs0
    /\ metadataDir = metadataDir0

\* C3 as amended: in a call whose asset location is inconsistent the only
\* side effects are pre-install commands: nothing is placed, no post-install
\* command runs, no record is written; and when Install returns the
\* configuration error every pre-install command has run, successfully.
C3_ConfigErrorAfterPreInstallOnly ==
  AssetLocationInconsistent =>
    /\ \A k \in 1..Len(events) : events[k].kind = "pre"
    /\ fs = fs0
    /\ metadataDir = metadataDir0
    /\ pc \notin PlacementOrLater
    /\ (pc = "returned" /\ result = "err_config") =>
         events = CommandEvents("pre", desc.preInstall, 0)

C3_Witness ==
  /\ pc = "returned"
  /\ result = "err_config"
  /\ Len(events) = 2

\* C4: with the asset URL set and no asset archive path, and with no asset
\* URL and an asset archive path set, Install never gets to placeFiles and
\* never succeeds, and unless the duplicate check or a pre-install command
\* failed first it returns the configuration error; with both set or both
\* empty it never returns the configuration error.
C4_AssetLocationExclusivity ==
  LET noPath == IsEmpty(assetArchiveFilePath)
      noURL == URLString(desc.assetURL) = ""
      earlier == {"err_is_installed", "err_already_installed", "err_pre_install"}
  IN /\ (AssetURLParses(desc.assetURL) /\ ((noPath /\ ~noURL) \/ (~noPath /\ noURL))) =>
          /\ pc \notin PlacementOrLater
          /\ result # "ok"
          /\ (pc = "returned" /\ result \notin earlier) => result = "err_config"
     /\ ((noPath /\ noURL) \/ (~noPath /\ ~noURL)) => result # "err_config"

C4_Witness ==
  /\ pc = "returned"
  /\ result = "err_config"
  /\ ~IsEmpty(assetArchiveFilePath)
  /\ desc.assetURL = ""

\* C5 as stated: the configuration error is returned for both set and for
\* both empty, which never get to placeFiles, and not when exactly one of the
\* two is empty.
C5_ExactlyOneEmptyRequired ==
  LET same == IsEmpty(assetArchiveFilePath) = (URLString(desc.assetURL) = "")
  IN /\ same => pc \notin PlacementOrLater /\ result # "ok"
     /\ ~same => result # "err_config"

\* C5 as amended: the check returns the configuration error exactly when
\* one of the asset archive path and the asset URL is empty and the other is
\* not; with both set or both empty Install goes on to placeFiles.
C5_ConfigErrorIffExactlyOneEmpty ==
  [][ (pc = "asset" /\ AssetURLParses(desc.assetURL)) =>
        LET same == IsEmpty(assetArchiveFilePath) = (URLString(desc.assetURL) = "")
        IN /\ ~same => pc' = "returned" /\ result' = "err_config"
           /\ same => pc' = "open" /\ result' = "none" ]_vars

C5_Witness ==
  /\ pc = "open"
  /\ ~IsEmpty(assetArchiveFilePath)
  /\ desc.assetURL # ""

\* C6: a failed pre-install command is the last side effect of the call:
\* no later command runs, the archive is not opened, nothing is created, no
\* post-install command runs, no record is written, and Install has returned
\* the pre-install failure; an empty list runs nothing and does not fail.
C6_PreInstallFailFast ==
  /\ \A k \in Failed("pre") :
       /\ k = Len(events)
       /\ \A m \in 1..k : events[m].kind = "pre" /\ events[m].n = m
       /\ pc = "returned"
       /\ result = "err_pre_install"
       /\ fs = fs0
       /\ metadataDir = metadataDir0
  /\ desc.preInstall = <<>> => ~HasEvent("pre") /\ result # "err_pre_install"
  /\ result = "err_pre_install" => Failed("pre") # {}

\* cmd1 of two fails: cmd2 never runs.
C6_Witness ==
  /\ Len(desc.preInstall) = 2
  /\ Failed("pre") = {1}
  /\ pc = "returned"

\* C7: a failed post-install command is the last side effect of the call:
\* Install has returned the post-install failure, no record is written, and
\* the files the placement step placed are there with what was placed.
C7_PostInstallFailureNoRollback ==
  \A k \in Failed("post") :
    /\ k = Len(events)
    /\ pc = "returned"
    /\ result = "err_post_install"
    /\ ~HasEvent("write_metadata")
    /\ metadataDir = metadataDir0
    /\ PlacedFilesPresent

C7_Witness ==
  /\ Failed("post") # {}
  /\ Len(desc.postInstall) = 2
  /\ \E k \in EventsOf("copy") : events[k].ok /\ fs[events[k].path].kind = "file"

\* C8: the record is written at most once in a call; Install returns success
\* exactly when the write happened and succeeded; and the record is written
\* only after the duplicate check, every pre-install command, the placement
\* of every rule and every post-install command went through without failure.
C8_CommitMarksCompletion ==
  /\ Cardinality(EventsOf("write_metadata")) <= 1
  /\ pc = "returned" =>
       (result = "ok" <=> \E k \in EventsOf("write_metadata") : events[k].ok)
  /\ HasEvent("write_metadata") =>
       /\ ~IsInstalled(metadataDir0, desc.identity)
       /\ Failed("pre") = {} /\ Failed("post") = {}
       /\ Cardinality(EventsOf("pre")) = Len(desc.preInstall)
       /\ Cardinality(EventsOf("post")) = Len(desc.postInstall)
       /\ placeErr = "nil"

\* C9: no step changes what is at a workspace path where something is: a
\* file is created or written only where the step found nothing, and what
\* was in the workspace as the call began is there, unchanged, throughout.
C9_NoSilentOverwrite ==
  [][ /\ \A p \in WorkspacePaths : fs[p].kind # "absent" => fs'[p] = fs[p]
      /\ \A p \in WorkspacePaths : fs0'[p].kind # "absent" => fs'[p] = fs0'[p] ]_vars

\* A rule names the user's file as its destination, and the file is as it was.
C9_Witness ==
  /\ placeErr = "err_dest_exists"
  /\ fs0[<<"o">>] = UserFile
  /\ fs[<<"o">>] = UserFile
  /\ pc = "returned"

\* The paths rule i of the descriptor may create: its destination and the
\* directories above it.
RulePaths(i) ==
  LET dest == Parse(desc.place[i].dest).path
  IN { Prefix(dest, n) : n \in 1..Len(dest) }

\* C10: when a rule's destination exists, placeFiles returns at that rule:
\* the loop is left, nothing of a later rule is created or modified, and
\* the files placed by the rules before it are in place.
C10_DestinationConflictStopsPlacement ==
  placeErr = "err_dest_exists" =>
    /\ pc \in {"place_return", "post", "commit", "returned"}
    /\ DestinationExists(fs, Parse(desc.place[ruleIdx].dest).path)
    /\ \A k \in 1..Len(events) :
         events[k].kind \in {"mkdir", "create", "copy"} => events[k].rule < ruleIdx
    /\ \A p \in WorkspacePaths :
         fs[p] # fs0[p] => \E i \in 1..(ruleIdx - 1) : p \in RulePaths(i)
    /\ PlacedFilesPresent

\* The second of two rules hits the file the first one placed; the first
\* rule's file is in place.
C10_Witness ==
  /\ placeErr = "err_dest_exists"
  /\ ruleIdx = 2
  /\ \E k \in EventsOf("copy") : events[k].rule = 1 /\ events[k].ok
  /\ pc = "place_return"

\* The archive placeFiles reads in this call, the destination of rule i and
\* the positions of the entries rule i is to copy: the entries that are no
\* directory entries and whose cleaned name is the content root joined with
\* the rule's source.
PlacedEntries == ArchiveAt(placeArchive)

RuleDest(i) == Parse(desc.place[i].dest).path

ExpectedSource(i) == placeRoot \o Parse(desc.place[i].src).path

Matches(i) ==
  { j \in 1..Len(PlacedEntries) :
      /\ ~PlacedEntries[j].slash
      /\ Parse(PlacedEntries[j].name).ok
      /\ Parse(PlacedEntries[j].name).path = ExpectedSource(i) }

\* The rules placeFiles has gone through without an error in this call.
Completed(i) == i < ruleIdx

\* C11: whatever is created or copied for a rule is an entry that is no
\* directory entry and whose cleaned name equals the content root joined
\* with the rule's source, and it goes to the rule's destination; no other
\* entry (one sharing a prefix or a suffix with the source, a directory
\* entry) is ever selected.
C11_ExactMatchPlacement ==
  \A k \in EventsOf("create") \cup EventsOf("copy") :
    /\ events[k].n \in Matches(events[k].rule)
    /\ events[k].path = RuleDest(events[k].rule)

\* Source b under root a of the tooth archive: a/b and a/./b were copied,
\* a/bb, the directory entries and b at the root were not.
C11_Witness ==
  /\ placeArchive = ToothArchivePath
  /\ Completed(1)
  /\ desc.place[1].src = <<"b">>
  /\ { events[k].n : k \in EventsOf("copy") } = {2, 5}

\* The errors of a rule that do not come from looking for its source.
BeforeScanErrors == {"err_parse_dest", "err_dest_exists", "err_mkdir", "err_parse_src"}

\* C12: a step of placeFiles on a rule whose source matches no entry creates
\* no file and leaves the rule's destination as it is; unless the
\* destination exists, a directory cannot be made or a name does not parse,
\* placeFiles goes on to the next rule without an error.
C12_NoMatchRuleIsSilent ==
  [][ (pc = "rule" /\ ruleIdx <= Len(desc.place) /\ Matches(ruleIdx) = {}) =>
        /\ fs'[RuleDest(ruleIdx)] = fs[RuleDest(ruleIdx)]
        /\ EventsOf("create")' = EventsOf("create")
        /\ \/ pc' = "rule" /\ ruleIdx' = ruleIdx + 1 /\ placeErr' = placeErr
           \/ pc' = "place_return" /\ placeErr' \in BeforeScanErrors \cup {"err_parse_file"}
        /\ ( /\ ~DestinationExists(fs, RuleDest(ruleIdx))
             /\ \A j \in 1..Len(PlacedEntries) : Parse(PlacedEntries[j].name).ok
             /\ Dir(RuleDest(ruleIdx)) = <<>> )
           => pc' = "rule" /\ ruleIdx' = ruleIdx + 1 ]_vars

\* The first rule matched nothing and left no file; the second rule was
\* placed after it.
C12_Witness ==
  /\ Len(desc.place) = 2
  /\ Matches(1) = {}
  /\ Completed(2)
  /\ \E k \in EventsOf("copy") : events[k].rule = 2 /\ events[k].ok
  /\ \A k \in EventsOf("create") : events[k].rule # 1

\* The entries copied for rule i, in the order of the copies.
RECURSIVE CopiedFrom(_, _)
CopiedFrom(i, k) ==
  IF k > Len(events) THEN << >>
  ELSE IF events[k].kind = "copy" /\ events[k].rule = i
    THEN << events[k].n >> \o CopiedFrom(i, k + 1)
    ELSE CopiedFrom(i, k + 1)

Max(S) == CHOOSE x \in S : \A y \in S : y <= x

\* C13: for a rule placeFiles has gone through without an error, every
\* entry matching the rule was copied to the rule's destination, once each
\* and in the order of the archive, each copy complete, and the destination
\* holds the bytes of the last matching entry.
C13_LastMatchWins ==
  \A i \in 1..Len(desc.place) :
    (Completed(i) /\ Matches(i) # {}) =>
      LET copied == CopiedFrom(i, 1) IN
      /\ Range(copied) = Matches(i)
      /\ Len(copied) = Cardinality(Matches(i))
      /\ \A a, b \in 1..Len(copied) : a < b => copied[a] < copied[b]
      /\ \A k \in EventsOf("copy") \cup EventsOf("create") :
           events[k].rule = i => events[k].ok /\ events[k].path = RuleDest(i)
      /\ fs[RuleDest(i)] = File(PlacedEntries[Max(Matches(i))].data)

\* Two entries of the tooth archive, a/b and a/./b, match source b: both
\* were copied to o, which holds the bytes of a/./b.
C13_Witness ==
  /\ placeArchive = ToothArchivePath
  /\ Completed(1)
  /\ Cardinality(Matches(1)) = 2
  /\ CopiedFrom(1, 1) = << 2, 5 >>
  /\ fs[RuleDest(1)] = File(PlacedEntries[5].data)
  /\ PlacedEntries[2].data # PlacedEntries[5].data

\* C14: when Install has returned success, the destination of every rule
\* whose source matches an entry of the archive is a file holding the bytes
\* of a matching entry, and the record named after the identity holds the
\* serialized descriptor.
C14_SuccessMeansPlacedAndRecorded ==
  (pc = "returned" /\ result = "ok") =>
    /\ \A i \in 1..Len(desc.place) :
         Matches(i) # {} =>
           \E j \in Matches(i) : fs[RuleDest(i)] = File(PlacedEntries[j].data)
    /\ metadataDir[MetadataFileName(desc.identity)] = File(MarshalJSON(desc))

\* C15: when Install has returned success for a descriptor with identity I,
\* the metadata directory holds a file named QueryEscape(I) + ".json" whose
\* content reads back as the installed descriptor, it is the only file of
\* the directory the call has changed, the duplicate check finds I
\* installed, and no other identity has the same file name or has become
\* installed by the call.
C15_MetadataRoundTrip ==
  (pc = "returned" /\ result = "ok") =>
    LET name == QueryEscape(desc.identity) \o <<".json">> IN
    /\ name \in DOMAIN metadataDir
    /\ metadataDir[name].kind = "file"
    /\ UnmarshalJSON(metadataDir[name].data) = desc
    /\ \A n \in DOMAIN metadataDir \ {name} : metadataDir[n] = metadataDir0[n]
    /\ IsInstalled(metadataDir, desc.identity)
    /\ \A other \in Identities \ {desc.identity} :
         /\ QueryEscape(other) \o <<".json">> # name
         /\ IsInstalled(metadataDir, other) <=> IsInstalled(metadataDir0, other)

\* Identity a%2Fc was installed next to the record of identity a/c, whose
\* escaped form is a%2Fc: two records in two files.
C15_Witness ==
  /\ pc = "returned"
  /\ result = "ok"
  /\ desc.identity = <<"a", "%", "2", "F", "c">>
  /\ desc.place # << >>
  /\ ~IsInstalled(metadataDir0, desc.identity)
  /\ IsInstalled(metadataDir0, EarlierIdentity)
  /\ metadataDir[MetadataFileName(desc.identity)] = File(MarshalJSON(desc))
  /\ metadataDir[MetadataFileName(EarlierIdentity)] =
       File(MarshalJSON(EarlierDescriptor(EarlierIdentity)))

\* The step of Install a side effect belongs to.
Phase(kind) ==
  CASE kind = "pre" -> 2
    [] kind \in {"open_archive", "mkdir", "create", "copy", "close_archive"} -> 3
    [] kind = "post" -> 4
    [] kind = "write_metadata" -> 5

EventsFrom(phase) == { k \in 1..Len(events) : Phase(events[k].kind) >= phase }

\* All commands of the list have run, in order and with success.
AllRan(kind, commands) ==
  /\ Cardinality(EventsOf(kind)) = Len(commands)
  /\ Failed(kind) = {}
  /\ \A k, m \in EventsOf(kind) : k < m => events[k].n < events[m].n

SelectedArchive ==
  IF assetArchiveFilePath = << >>
    THEN [path |-> ToothArchivePath, entries |-> ToothEntries, root |-> ToothContentRoot]
    ELSE [path |-> assetArchiveFilePath, entries |-> ArchiveAt(assetArchiveFilePath),
          root |-> << >>]

\* C17: with an empty asset archive path placement opens the tooth archive
\* and copies the entries named by its content root joined with the rule's
\* source; with a non-empty path it opens the archive at that path, never
\* the tooth archive, and copies the entries named by the source alone; in
\* both cases a destination copied to holds the bytes of that archive's
\* entry.
C17_ArchiveSelection ==
  /\ \A k \in EventsOf("open_archive") \cup EventsOf("close_archive") :
       /\ events[k].path = SelectedArchive.path
       /\ assetArchiveFilePath # << >> => events[k].path # ToothArchivePath
  /\ \A k \in EventsOf("copy") :
       LET entries == SelectedArchive.entries
           n == events[k].n
       IN /\ n \in 1..Len(entries)
          /\ Parse(entries[n].name).path =
               SelectedArchive.root \o Parse(desc.place[events[k].rule].src).path
          /\ (events[k].ok /\ \A m \in EventsOf("create") : m < k)
               => fs[events[k].path] = File(entries[n].data)

\* Source b was copied from the supplied archive, where it is b at the root
\* (bytes 6,7), although that archive has an a/b and the tooth archive has
\* a/b under its content root.
C17_Witness ==
  /\ assetArchiveFilePath = SuppliedAssetPath
  /\ HasEvent("open_archive")
  /\ \E k \in EventsOf("copy") : events[k].ok /\ events[k].n = 1
  /\ \E i \in 1..Len(desc.place) : Completed(i) /\ fs[RuleDest(i)] = File(<<6, 7>>)

\* C18: the archive handle is open only while placeFiles runs: once
\* placeFiles has returned, with nil or with an error, an archive that was
\* opened has been closed, after every other placement side effect, and the
\* handle is not open during post-install, during the write of the record
\* or between calls.
C18_ArchiveHandleReleased ==
  /\ ArchiveHandle \in handles => pc \in {"rule", "place_return"}
  /\ Cardinality(EventsOf("open_archive")) <= 1
  /\ pc \in {"post", "commit", "returned"} =>
       /\ Cardinality(EventsOf("close_archive")) = Cardinality(EventsOf("open_archive"))
       /\ \A c \in EventsOf("close_archive") :
            \A k \in EventsFrom(3) \ EventsFrom(4) : k <= c

\* placeFiles opened the archive and returned an error from a rule: the
\* archive was closed before post-install began.
C18_Witness ==
  /\ pc = "post"
  /\ placeErr \in {"err_dest_exists", "err_mkdir", "err_parse_file", "err_create_dest", "err_copy"}
  /\ HasEvent("open_archive")
  /\ HasEvent("close_archive")
  /\ ArchiveHandle \notin handles

\* C19: at no moment between the steps of placeFiles, and at no moment
\* after it has returned, is an entry stream or a destination file open:
\* whatever placeFiles opened for an entry it has closed, also when creating
\* the destination or copying failed.
C19_EntryHandlesReleased ==
  \A h \in handles : h.kind = "archive"

\* C20: in one run of placeFiles a destination is created by one rule only.
\* Of two rules with the same destination, when the earlier one has
\* matching entries the later one is never gone through: it fails with
\* "destination already exists", makes nothing, and the destination holds
\* what the earlier rule copied last. A rule whose destination was absent
\* when Install was called, and before which only rules without a match
\* had that destination, does not fail with "destination already exists".
C20_OneWriterPerDestination ==
  /\ \A k, m \in EventsOf("create") :
       events[k].path = events[m].path => events[k].rule = events[m].rule
  /\ \A i, j \in 1..Len(desc.place) :
       (i < j /\ RuleDest(i) = RuleDest(j) /\ Matches(i) # {}) =>
         /\ ruleIdx <= j
         /\ (ruleIdx = j /\ pc # "rule") =>
              /\ placeErr = "err_dest_exists"
              /\ fs[RuleDest(i)] = File(PlacedEntries[Max(Matches(i))].data)
              /\ \A k \in 1..Len(events) : events[k].rule # j
  /\ \A j \in 1..Len(desc.place) :
       ( /\ \A i \in 1..(j - 1) : RuleDest(i) = RuleDest(j) => Matches(i) = {}
         /\ ~Stat(fs0, RuleDest(j))
         /\ \A k \in EventsOf("mkdir") : events[k].path # RuleDest(j)
         /\ ruleIdx = j )
       => placeErr # "err_dest_exists"

\* Two rules with destination o, the first with matching entries: the
\* second failed on the file the first had made, which is as the first
\* left it.
C20_Witness ==
  /\ Len(desc.place) = 2
  /\ RuleDest(1) = RuleDest(2)
  /\ Matches(1) # {}
  /\ ~Stat(fs0, RuleDest(1))
  /\ ruleIdx = 2
  /\ placeErr = "err_dest_exists"
  /\ pc = "post"
  /\ fs[RuleDest(1)] = File(PlacedEntries[Max(Matches(1))].data)

====
